---- MODULE Spec2Model ----
(***************************************************************************)
(* Model of src/src/subcommand/wallet/inscribe.rs: the `ord wallet         *)
(* inscribe` pipeline (Inscribe::run), the commit/reveal construction      *)
(* (Inscribe::create_inscription_transactions) and the recovery-key export *)
(* (Inscribe::backup_recovery_key).                                        *)
(*                                                                         *)
(* Option<T> is modelled as a sequence: <<>> is None, <<x>> is Some(x).    *)
(* A local of run that is not bound yet holds an empty placeholder.        *)
(* Byte strings (scripts, signatures, control blocks) are modelled by      *)
(* their length, which is all the fee computation reads of them.           *)
(***************************************************************************)
EXTENDS Integers, Sequences, FiniteSets, TLC

VARIABLES
  pc,                 \* position of Inscribe::run
  satpoint,           \* self.satpoint: Option<SatPoint>
  fee_rate,           \* self.fee_rate
  no_backup,          \* self.no_backup
  envelope_len,       \* byte length of the envelope Inscription::append_reveal_script appends
  inscriptions,       \* keys of index.get_inscriptions(None): BTreeMap<SatPoint, InscriptionId>
  utxos,              \* keys of get_unspent_outputs(): BTreeMap<OutPoint, Amount>
  destination,        \* reveal_tx_destination.script_pubkey()
  builder_reply,      \* what TransactionBuilder::build_transaction answered, once called
  resolved,           \* the satpoint after resolution (lines 109-125), Option
  unsigned_commit_tx, \* Option<Transaction>
  reveal_tx,          \* Option<Transaction>
  signed_raw_commit_tx, \* Option: the transaction sign_raw_transaction_with_wallet returned
  commit,             \* Option<Txid>: the node's reply to the commit broadcast
  reveal,             \* Option<Txid>: the node's reply to the reveal broadcast
  calls,              \* the calls made to external collaborators, in order, with their outcome
  error,              \* Option<error>: the Err run returned
  panicked,           \* TRUE once an expect()/unwrap() has panicked
  emitted             \* Option<Output>: the record written to stdout

vars == <<pc, satpoint, fee_rate, no_backup, envelope_len, inscriptions, utxos,
          destination, builder_reply, resolved, unsigned_commit_tx, reveal_tx,
          signed_raw_commit_tx, commit, reveal, calls, error, panicked, emitted>>

----------------------------------------------------------------------------
(* Bounds of the model. *)

MaxTxid == 2

MaxIndexEntries == 2

MaxOutputs == 2

MaxImportResults == 1

(* Program constants. *)

SCHNORR_SIGNATURE_SIZE == 64

XONLY_PUBLIC_KEY_SIZE == 32

CONTROL_BLOCK_SIZE == 33

----------------------------------------------------------------------------
(* Option<T> *)

None == <<>>

Some(x) == <<x>>

IsSome(o) == o # <<>>

Unwrap(o) == o[1]

----------------------------------------------------------------------------
(* OutPoint and SatPoint, with the derived Ord: field by field, in order. *)

Vouts == {0}

Offsets == {0, 1}

OutPoints == [txid : 1..MaxTxid, vout : Vouts]

SatPoints == [outpoint : OutPoints, offset : Offsets]

OutPointLess(a, b) ==
  \/ a.txid < b.txid
  \/ a.txid = b.txid /\ a.vout < b.vout

SatPointLess(a, b) ==
  \/ OutPointLess(a.outpoint, b.outpoint)
  \/ a.outpoint = b.outpoint /\ a.offset < b.offset

(* BTreeMap::keys() / iteration: the keys in ascending order. *)
RECURSIVE OutPointKeys(_)
OutPointKeys(S) ==
  IF S = {} THEN <<>>
  ELSE LET m == CHOOSE x \in S : \A y \in S : x = y \/ OutPointLess(x, y)
       IN  <<m>> \o OutPointKeys(S \ {m})

RECURSIVE SatPointKeys(_)
SatPointKeys(S) ==
  IF S = {} THEN <<>>
  ELSE LET m == CHOOSE x \in S : \A y \in S : x = y \/ SatPointLess(x, y)
       IN  <<m>> \o SatPointKeys(S \ {m})

----------------------------------------------------------------------------
(* Satpoint resolution, lines 109-125. *)

(* utxos.keys().find(|outpoint| !inscribed_utxos.contains(outpoint)):      *)
(* the first key, in ascending order, that is not an inscribed outpoint.   *)
(* Variant: the last cardinal key instead of the first. *)
RECURSIVE FindCardinalLast(_, _)
FindCardinalLast(keys, inscribed_utxos) ==
  IF keys = <<>> THEN None
  ELSE LET rest == FindCardinalLast(Tail(keys), inscribed_utxos)
       IN  IF IsSome(rest) THEN rest
           ELSE IF Head(keys) \notin inscribed_utxos THEN Some(Head(keys))
           ELSE None

(* Variant: the first key, inscribed or not. *)
FindCardinalAny(keys, inscribed_utxos) ==
  IF keys = <<>> THEN None ELSE Some(Head(keys))

RECURSIVE FindCardinal(_, _)
FindCardinal(keys, inscribed_utxos) ==
  IF keys = <<>> THEN None
  ELSE IF Head(keys) \notin inscribed_utxos THEN Some(Head(keys))
  ELSE FindCardinal(Tail(keys), inscribed_utxos)

(* Some(resolved satpoint), or None for "wallet contains no cardinal utxos". *)
ResolveSatpoint(sp, index, unspent) ==
  IF IsSome(sp) THEN sp
  ELSE LET inscribed_utxos == {k.outpoint : k \in index}
           found == FindCardinal(OutPointKeys(unspent), inscribed_utxos)
       IN  IF IsSome(found)
           THEN Some([outpoint |-> Unwrap(found), offset |-> 0])
           ELSE None

(* The collision loop, lines 127-138: the index entries in ascending key   *)
(* order, returning at the first entry that equals the satpoint or shares  *)
(* its outpoint. None when the loop runs to its end.                       *)
(* Variant: the outpoint test before the equality test. *)
RECURSIVE CollisionCheckOutpointFirst(_, _)
CollisionCheckOutpointFirst(entries, sp) ==
  IF entries = <<>> THEN None
  ELSE LET inscribed_satpoint == Head(entries)
       IN  IF inscribed_satpoint.outpoint = sp.outpoint
           THEN Some([kind |-> "OutpointAlreadyInscribed",
                      outpoint |-> sp.outpoint,
                      inscribed_satpoint |-> inscribed_satpoint])
           ELSE IF inscribed_satpoint = sp
           THEN Some([kind |-> "SatAlreadyInscribed", satpoint |-> sp])
           ELSE CollisionCheckOutpointFirst(Tail(entries), sp)

(* Variant: only the equality test. *)
RECURSIVE CollisionCheckExactOnly(_, _)
CollisionCheckExactOnly(entries, sp) ==
  IF entries = <<>> THEN None
  ELSE IF Head(entries) = sp
       THEN Some([kind |-> "SatAlreadyInscribed", satpoint |-> sp])
       ELSE CollisionCheckExactOnly(Tail(entries), sp)

RECURSIVE CollisionCheck(_, _)
CollisionCheck(entries, sp) ==
  IF entries = <<>> THEN None
  ELSE LET inscribed_satpoint == Head(entries)
       IN  IF inscribed_satpoint = sp
           THEN Some([kind |-> "SatAlreadyInscribed", satpoint |-> sp])
           ELSE IF inscribed_satpoint.outpoint = sp.outpoint
           THEN Some([kind |-> "OutpointAlreadyInscribed",
                      outpoint |-> sp.outpoint,
                      inscribed_satpoint |-> inscribed_satpoint])
           ELSE CollisionCheck(Tail(entries), sp)

----------------------------------------------------------------------------
(* Scripts and addresses. *)

ScriptKinds == {"p2tr", "p2wpkh", "p2pkh"}

(* Script::len() of the script_pubkey of an address of each kind. *)
ScriptPubkeyLen(spk) ==
  CASE spk.kind = "p2tr"   -> 34
    [] spk.kind = "p2wpkh" -> 22
    [] spk.kind = "p2pkh"  -> 25

IsWitnessProgram(spk) == spk.kind \in {"p2tr", "p2wpkh"}

(* Address::p2tr_tweaked(taproot_spend_info.output_key(), network), line 160. *)
commit_tx_address == [kind |-> "p2tr", owner |-> "commit"]

(* The wallet's change addresses, line 55. *)
change == [kind |-> "p2wpkh", owner |-> "change"]

(* The reveal script, lines 144-148: push of the x-only public key,       *)
(* OP_CHECKSIG, then the inscription's envelope.                          *)
RevealScriptLen(envelope) == (1 + XONLY_PUBLIC_KEY_SIZE) + 1 + envelope

(* CompactSize (VarInt) length of n. *)
VarIntLen(n) ==
  IF n <= 252 THEN 1 ELSE IF n <= 65535 THEN 3 ELSE 5

(* u32 values above TLC's 32-bit signed integers are kept as two 16-bit    *)
(* halves, compared as the 32-bit number they stand for.                   *)
U32(hi, lo) == [hi |-> hi, lo |-> lo]

U32Less(a, b) == a.hi < b.hi \/ (a.hi = b.hi /\ a.lo < b.lo)

(* Sequence::ENABLE_RBF_NO_LOCKTIME = Sequence(0xFFFFFFFD) *)
ENABLE_RBF_NO_LOCKTIME == U32(65535, 65533)

(* Sequence::MAX = Sequence(0xFFFFFFFF) *)
SEQUENCE_MAX == U32(65535, 65535)

----------------------------------------------------------------------------
(* Transactions. A witness is a sequence of element lengths.              *)

RECURSIVE SumLens(_)
SumLens(w) == IF w = <<>> THEN 0 ELSE VarIntLen(Head(w).len) + Head(w).len + SumLens(Tail(w))

(* Witness::serialized_len *)
WitnessSerializedLen(w) == VarIntLen(Len(w)) + SumLens(w)

RECURSIVE InputWeight(_)
InputWeight(ins) ==
  IF ins = <<>> THEN 0
  ELSE LET i == Head(ins)
       IN  4 * (32 + 4 + 4 + VarIntLen(i.script_sig_len) + i.script_sig_len)
           + (IF i.witness # <<>> THEN WitnessSerializedLen(i.witness) ELSE 0)
           + InputWeight(Tail(ins))

RECURSIVE OutputSize(_)
OutputSize(outs) ==
  IF outs = <<>> THEN 0
  ELSE 8 + VarIntLen(ScriptPubkeyLen(Head(outs).script_pubkey))
         + ScriptPubkeyLen(Head(outs).script_pubkey) + OutputSize(Tail(outs))

(* Transaction::weight *)
Weight(tx) ==
  LET with_witness == Cardinality({i \in 1..Len(tx.input) : tx.input[i].witness # <<>>})
      non_input_size == 4 + VarIntLen(Len(tx.input)) + VarIntLen(Len(tx.output))
                          + OutputSize(tx.output) + 4
  IN  IF with_witness = 0
      THEN non_input_size * 4 + InputWeight(tx.input)
      ELSE non_input_size * 4 + InputWeight(tx.input) + Len(tx.input) - with_witness + 2

(* Transaction::vsize: weight / 4, rounded up. *)
Vsize(tx) == (Weight(tx) + 3) \div 4

(* Transaction::txid: a hash of the transaction without its witnesses    *)
(* (script_sigs included), modelled as an injective tag of what is hashed.*)
Txid(tx) == [txid_of |-> [input |-> [i \in 1..Len(tx.input) |->
                                       [previous_output |-> tx.input[i].previous_output,
                                        script_sig_len |-> tx.input[i].script_sig_len,
                                        sequence |-> tx.input[i].sequence]],
                          output |-> tx.output]]

(* Transaction::is_explicitly_rbf *)
IsExplicitlyRbf(tx) ==
  \E i \in 1..Len(tx.input) : U32Less(tx.input[i].sequence, U32(65535, 65534))

(* Script::dust_value: 3 sat/vB times the size of the output plus the     *)
(* cost of spending it.                                                   *)
DustValue(spk) ==
  3 * (IF IsWitnessProgram(spk)
       THEN 32 + 4 + 1 + (107 \div 4) + 4 + 8
              + VarIntLen(ScriptPubkeyLen(spk)) + ScriptPubkeyLen(spk)
       ELSE 32 + 4 + 1 + 107 + 4 + 8
              + VarIntLen(ScriptPubkeyLen(spk)) + ScriptPubkeyLen(spk))

(* FeeRate::fee(vsize): the rate is a rational num/den sat/vB, the fee is  *)
(* rounded up.                                                             *)
Fee(rate, vsize) == (rate.num * vsize + rate.den - 1) \div rate.den

----------------------------------------------------------------------------
(* Commit funding, lines 162-176. *)

(* TransactionBuilder::build_transaction(satpoint, inscriptions, utxos,    *)
(* commit_tx_address, change, fee_rate). The builder is an external        *)
(* collaborator: it fails when the satpoint's outpoint is not a wallet     *)
(* utxo or when it cannot fund the output (reply = None); otherwise it     *)
(* returns an unsigned transaction spending that outpoint with an          *)
(* RBF-enabled sequence and paying the outputs of its reply. The outputs   *)
(* are not assumed to honour the one-recipient-output guarantee: that is   *)
(* what the caller checks.                                                 *)
BuildTransaction(sp, unspent, reply) ==
  IF sp.outpoint \notin unspent \/ reply = None
  THEN [ok |-> FALSE, error |-> [kind |-> "FundingFailure"]]
  ELSE [ok |-> TRUE,
        tx |-> [version |-> 1,
                lock_time |-> 0,
                input |-> <<[previous_output |-> sp.outpoint,
                             script_sig_len |-> 0,
                             witness |-> <<>>,
                             sequence |-> ENABLE_RBF_NO_LOCKTIME]>>,
                output |-> Unwrap(reply)]]

(* output.iter().enumerate().find(|(_vout, output)| output.script_pubkey   *)
(* == commit_tx_address.script_pubkey()): Some(<<vout, output>>) for the   *)
(* first match, vout counted from 0, or None.                              *)
RECURSIVE FindFrom(_, _, _)
FindFrom(outs, spk, vout) ==
  IF vout >= Len(outs) THEN None
  ELSE IF outs[vout + 1].script_pubkey = spk THEN Some(<<vout, outs[vout + 1]>>)
  ELSE FindFrom(outs, spk, vout + 1)

FindCommitOutput(outs, spk) == FindFrom(outs, spk, 0)

----------------------------------------------------------------------------
(* Reveal construction, lines 178-241. *)

(* Variant: a final sequence, which does not signal replaceability. *)
RevealTemplateFinalSequence(commit_tx, vout, output, dest) ==
  [version |-> 1,
   lock_time |-> 0,
   input |-> <<[previous_output |-> [txid |-> Txid(commit_tx), vout |-> vout],
                script_sig_len |-> 0,
                witness |-> <<>>,
                sequence |-> SEQUENCE_MAX]>>,
   output |-> <<[script_pubkey |-> dest, value |-> output.value]>>]

(* The reveal template, lines 178-194. *)
RevealTemplate(commit_tx, vout, output, dest) ==
  [version |-> 1,
   lock_time |-> 0,
   input |-> <<[previous_output |-> [txid |-> Txid(commit_tx), vout |-> vout],
                script_sig_len |-> 0,
                witness |-> <<>>,
                sequence |-> ENABLE_RBF_NO_LOCKTIME]>>,
   output |-> <<[script_pubkey |-> dest, value |-> output.value]>>]

(* tx.input[0].witness.push(..) three times *)
PushWitness(tx, w) ==
  [tx EXCEPT !.input[1].witness = @ \o w]

(* Variant: a stand-in signature with a sighash-type byte appended. *)
DummyWitnessWithSighashByte(script_len) ==
  <<[item |-> "zero_signature", len |-> SCHNORR_SIGNATURE_SIZE + 1],
    [item |-> "reveal_script", len |-> script_len],
    [item |-> "control_block", len |-> CONTROL_BLOCK_SIZE]>>

(* The stand-in witness of lines 199-205. *)
DummyWitness(script_len) ==
  <<[item |-> "zero_signature", len |-> SCHNORR_SIGNATURE_SIZE],
    [item |-> "reveal_script", len |-> script_len],
    [item |-> "control_block", len |-> CONTROL_BLOCK_SIZE]>>

(* The witness of lines 236-241: the Schnorr signature (secp256k1's        *)
(* Signature is SCHNORR_SIGNATURE_SIZE bytes), the script, the control     *)
(* block.                                                                  *)
FinalWitness(script_len) ==
  <<[item |-> "signature", len |-> SCHNORR_SIGNATURE_SIZE],
    [item |-> "reveal_script", len |-> script_len],
    [item |-> "control_block", len |-> CONTROL_BLOCK_SIZE]>>

(* lines 196-208 *)
RevealFee(template, script_len, rate) ==
  Fee(rate, Vsize(PushWitness(template, DummyWitness(script_len))))

(* Variant: no dust test. *)
ApplyFeeNoDustTest(template, fee) ==
  LET value == template.output[1].value
  IN  IF value < fee
      THEN [ok |-> FALSE, error |-> [kind |-> "InsufficientCommitValue"]]
      ELSE [ok |-> TRUE, tx |-> [template EXCEPT !.output[1].value = value - fee]]

(* lines 210-217: checked_sub, then the dust test. *)
ApplyFee(template, fee) ==
  LET value == template.output[1].value
  IN  IF value < fee
      THEN [ok |-> FALSE, error |-> [kind |-> "InsufficientCommitValue"]]
      ELSE IF value - fee < DustValue(template.output[1].script_pubkey)
      THEN [ok |-> FALSE, error |-> [kind |-> "RevealWouldBeDust"]]
      ELSE [ok |-> TRUE, tx |-> [template EXCEPT !.output[1].value = value - fee]]

----------------------------------------------------------------------------
(* Inscribe::create_inscription_transactions from the builder call on,    *)
(* lines 140-255, for the satpoint sp that lines 109-138 resolved.         *)
(* outcome is "ok" (Ok((unsigned_commit_tx, reveal_tx, recovery_key_pair))),*)
(* "err" (an Err was returned) or "panic" (an expect() failed).           *)

Failed(err, built) ==
  [outcome |-> "err", error |-> Some(err), built |-> built,
   unsigned_commit_tx |-> None, reveal_tx |-> None]

DeriveTransactions(sp, envelope, unspent, dest, rate, reply) ==
  LET script_len == RevealScriptLen(envelope)
      built == BuildTransaction(sp, unspent, reply)
  IN
  IF ~built.ok THEN Failed(built.error, FALSE)
  ELSE
  LET found == FindCommitOutput(built.tx.output, commit_tx_address)
  IN
  IF found = None
  THEN [outcome |-> "panic", error |-> None, built |-> TRUE,
        unsigned_commit_tx |-> None, reveal_tx |-> None]
  ELSE
  LET vout == Unwrap(found)[1]
      output == Unwrap(found)[2]
      template == RevealTemplate(built.tx, vout, output, dest)
      fee == RevealFee(template, script_len, rate)
      paid == ApplyFee(template, fee)
  IN
  IF ~paid.ok THEN Failed(paid.error, TRUE)
  ELSE [outcome |-> "ok", error |-> None, built |-> TRUE,
        unsigned_commit_tx |-> Some(built.tx),
        reveal_tx |-> Some(PushWitness(paid.tx, FinalWitness(script_len)))]

----------------------------------------------------------------------------
(* Inscribe::backup_recovery_key, lines 257-283.                          *)

Call(name, ok) == [call |-> name, ok |-> ok, response |-> <<>>]

(* for result in response { if !result.success { return Err } } *)
AllSuccessful(response) == \A i \in 1..Len(response) : response[i]

(* Variant: the import results are not inspected. *)
ImportDescriptorsResultUnchecked(import) ==
  IF import = None THEN Some([kind |-> "RpcError", call |-> "import_descriptors"])
  ELSE None

(* lines 266-282. import: None when the import_descriptors call itself     *)
(* failed, else Some(the success flags of its results). The result is None *)
(* for Ok(()), else Some(error).                                           *)
ImportDescriptorsResult(import) ==
  IF import = None THEN Some([kind |-> "RpcError", call |-> "import_descriptors"])
  ELSE IF ~AllSuccessful(Unwrap(import)) THEN Some([kind |-> "RecoveryKeyImportFailed"])
  ELSE None

(* sign_raw_transaction_with_wallet: the wallet fills the witness of a     *)
(* segwit input, or the script_sig of a legacy one.                        *)
WalletInputKinds == {"segwit", "legacy"}

SignWithWallet(tx, kind) ==
  IF kind = "segwit"
  THEN [tx EXCEPT !.input[1].witness = <<[item |-> "signature", len |-> 72],
                                         [item |-> "public_key", len |-> 33]>>]
  ELSE [tx EXCEPT !.input[1].script_sig_len = 107]

----------------------------------------------------------------------------
(* The inputs of a run. *)

SubsetsUpTo(S, n) == {T \in SUBSET S : Cardinality(T) <= n}

SeqsUpTo(S, n) == UNION {[1..k -> S] : k \in 0..n}

FeeRates == {[num |-> 1, den |-> 1], [num |-> 33, den |-> 10]}

EnvelopeLens == {39, 42}

Destinations == {[kind |-> k, owner |-> "destination"] : k \in ScriptKinds}

OutputValues == {400, 1000}

(* The outputs of the builder's transaction: the commit output with the    *)
(* value it funds, or a change output.                                     *)
BuilderOutputs ==
  [script_pubkey : {commit_tx_address}, value : OutputValues]
    \cup {[script_pubkey |-> change, value |-> 400]}

BuilderReplies == {None} \cup {Some(outs) : outs \in SeqsUpTo(BuilderOutputs, MaxOutputs)}

(* What the builder can answer for the satpoint sp and the wallet unspent:  *)
(* an error (None) when the wallet does not hold the satpoint's outpoint.  *)
BuilderAnswers(sp, unspent) ==
  IF sp.outpoint \notin unspent THEN {None} ELSE BuilderReplies

ImportReplies == {None} \cup {Some(r) : r \in SeqsUpTo(BOOLEAN, MaxImportResults)}

(* Placeholders of locals that are not bound yet. *)
NoEnvelope == 0

NoDestination == [kind |-> "unbound", owner |-> "unbound"]

(* The command line: --satpoint, --fee-rate, --no-backup (lines 26-40). *)
Init ==
  /\ pc = "client"
  /\ satpoint \in {None} \cup {Some(sp) : sp \in SatPoints}
  /\ fee_rate \in FeeRates
  /\ no_backup \in BOOLEAN
  /\ envelope_len = NoEnvelope
  /\ inscriptions = {}
  /\ utxos = {}
  /\ destination = NoDestination
  /\ builder_reply = None
  /\ resolved = None
  /\ unsigned_commit_tx = None
  /\ reveal_tx = None
  /\ signed_raw_commit_tx = None
  /\ commit = None
  /\ reveal = None
  /\ calls = <<>>
  /\ error = None
  /\ panicked = FALSE
  /\ emitted = None

options == <<satpoint, fee_rate, no_backup>>

loaded == <<envelope_len, inscriptions, utxos, destination>>

results == <<builder_reply, resolved, unsigned_commit_tx, reveal_tx,
             signed_raw_commit_tx, commit, reveal, panicked, emitted>>

----------------------------------------------------------------------------
(* Inscribe::run, lines 43-97. Every step is one call followed by `?`.    *)

Fail(err) ==
  /\ error' = Some(err)
  /\ pc' = "done"

(* A call that binds nothing the model reads: it answers, or run returns   *)
(* its error.                                                              *)
Step(from, name, to) ==
  /\ pc = from
  /\ \E ok \in BOOLEAN :
       /\ calls' = Append(calls, Call(name, ok))
       /\ IF ok
          THEN pc' = to /\ UNCHANGED error
          ELSE Fail([kind |-> "Error", call |-> name])

(* line 44 *)
RpcClient ==
  /\ Step("client", "bitcoin_rpc_client_for_wallet_command", "from_file")
  /\ UNCHANGED <<options, loaded, results>>

(* line 46 *)
InscriptionFromFile ==
  /\ pc = "from_file"
  /\ \/ /\ envelope_len' \in EnvelopeLens
        /\ calls' = Append(calls, Call("Inscription::from_file", TRUE))
        /\ pc' = "index_open"
        /\ UNCHANGED error
     \/ /\ calls' = Append(calls, Call("Inscription::from_file", FALSE))
        /\ Fail([kind |-> "Error", call |-> "Inscription::from_file"])
        /\ UNCHANGED envelope_len
  /\ UNCHANGED <<options, inscriptions, utxos, destination, results>>

(* line 48 *)
IndexOpen ==
  /\ Step("index_open", "Index::open", "index_update")
  /\ UNCHANGED <<options, loaded, results>>

(* line 49 *)
IndexUpdate ==
  /\ Step("index_update", "index.update", "get_unspent_outputs")
  /\ UNCHANGED <<options, loaded, results>>

(* line 51 *)
GetUnspentOutputs ==
  /\ pc = "get_unspent_outputs"
  /\ \/ /\ utxos' \in SUBSET OutPoints
        /\ calls' = Append(calls, Call("get_unspent_outputs", TRUE))
        /\ pc' = "get_inscriptions"
        /\ UNCHANGED error
     \/ /\ calls' = Append(calls, Call("get_unspent_outputs", FALSE))
        /\ Fail([kind |-> "Error", call |-> "get_unspent_outputs"])
        /\ UNCHANGED utxos
  /\ UNCHANGED <<options, envelope_len, inscriptions, destination, results>>

(* line 53 *)
GetInscriptions ==
  /\ pc = "get_inscriptions"
  /\ \/ /\ inscriptions' \in SubsetsUpTo(SatPoints, MaxIndexEntries)
        /\ calls' = Append(calls, Call("index.get_inscriptions", TRUE))
        /\ pc' = "commit_tx_change"
        /\ UNCHANGED error
     \/ /\ calls' = Append(calls, Call("index.get_inscriptions", FALSE))
        /\ Fail([kind |-> "Error", call |-> "index.get_inscriptions"])
        /\ UNCHANGED inscriptions
  /\ UNCHANGED <<options, envelope_len, utxos, destination, results>>

(* line 55 *)
GetCommitTxChange ==
  /\ Step("commit_tx_change", "get_change_addresses(2)", "reveal_tx_destination")
  /\ UNCHANGED <<options, loaded, results>>

(* line 57 *)
GetRevealTxDestination ==
  /\ pc = "reveal_tx_destination"
  /\ \/ /\ destination' \in Destinations
        /\ calls' = Append(calls, Call("get_change_addresses(1)", TRUE))
        /\ pc' = "start"
        /\ UNCHANGED error
     \/ /\ calls' = Append(calls, Call("get_change_addresses(1)", FALSE))
        /\ Fail([kind |-> "Error", call |-> "get_change_addresses(1)"])
        /\ UNCHANGED destination
  /\ UNCHANGED <<options, envelope_len, inscriptions, utxos, results>>

(* lines 59-69, create_inscription_transactions, lines 109-138: the       *)
(* satpoint is resolved and tested against the index.                     *)
SelectSatpoint ==
  /\ pc = "start"
  /\ LET res == ResolveSatpoint(satpoint, inscriptions, utxos)
     IN  /\ resolved' = res
         /\ IF res = None
            THEN Fail([kind |-> "NoCardinalUtxos"])
            ELSE LET collision == CollisionCheck(SatPointKeys(inscriptions), Unwrap(res))
                 IN  IF IsSome(collision)
                     THEN Fail(Unwrap(collision))
                     ELSE pc' = "build" /\ UNCHANGED error
  /\ UNCHANGED <<options, loaded, builder_reply, unsigned_commit_tx, reveal_tx,
                 signed_raw_commit_tx, commit, reveal, calls, panicked, emitted>>

(* create_inscription_transactions from line 140 on: the builder is       *)
(* called, which takes the index and the wallet by value (lines 164-165), *)
(* and the reveal transaction is derived from its answer.                 *)
BuildCommitAndReveal ==
  /\ pc = "build"
  /\ \E reply \in BuilderAnswers(Unwrap(resolved), utxos) :
       LET r == DeriveTransactions(Unwrap(resolved), envelope_len, utxos, destination,
                                   fee_rate, reply)
       IN  /\ builder_reply' = IF r.built THEN reply ELSE None
           /\ calls' = Append(calls, Call("build_transaction", r.built))
           /\ unsigned_commit_tx' = r.unsigned_commit_tx
           /\ reveal_tx' = r.reveal_tx
           /\ error' = r.error
           /\ panicked' = (r.outcome = "panic")
           /\ pc' = IF r.outcome = "ok" THEN "created" ELSE "done"
  /\ inscriptions' = {}
  /\ utxos' = {}
  /\ UNCHANGED <<options, envelope_len, destination, resolved,
                 signed_raw_commit_tx, commit, reveal, emitted>>

(* lines 71-72 and 264: backup enabled, client.get_descriptor_info(..)? *)
GetDescriptorInfo ==
  /\ ~no_backup
  /\ Step("created", "get_descriptor_info", "descriptor_info")
  /\ UNCHANGED <<options, loaded, results>>

(* lines 266-282: client.import_descriptors(..)? and the result loop *)
ImportDescriptors ==
  /\ pc = "descriptor_info"
  /\ \E import \in ImportReplies :
       LET r == ImportDescriptorsResult(import)
       IN  /\ calls' = Append(calls, [call |-> "import_descriptors", ok |-> IsSome(import),
                                      response |-> IF IsSome(import) THEN Unwrap(import)
                                                   ELSE <<>>])
           /\ IF IsSome(r)
              THEN Fail(Unwrap(r))
              ELSE pc' = "backed_up" /\ UNCHANGED error
  /\ UNCHANGED <<options, loaded, results>>

(* lines 75-77 *)
SignCommit ==
  /\ pc = "backed_up" \/ (pc = "created" /\ no_backup)
  /\ \/ \E kind \in WalletInputKinds :
          /\ signed_raw_commit_tx' = Some(SignWithWallet(Unwrap(unsigned_commit_tx), kind))
          /\ calls' = Append(calls, Call("sign_raw_transaction_with_wallet", TRUE))
          /\ pc' = "signed"
          /\ UNCHANGED error
     \/ /\ calls' = Append(calls, Call("sign_raw_transaction_with_wallet", FALSE))
        /\ Fail([kind |-> "Error", call |-> "sign_raw_transaction_with_wallet"])
        /\ UNCHANGED signed_raw_commit_tx
  /\ UNCHANGED <<options, loaded, builder_reply, resolved, unsigned_commit_tx, reveal_tx,
                 commit, reveal, panicked, emitted>>

(* lines 79-81: the node answers with the txid of the transaction it was   *)
(* sent.                                                                   *)
SendCommit ==
  /\ pc = "signed"
  /\ \/ /\ commit' = Some(Txid(Unwrap(signed_raw_commit_tx)))
        /\ calls' = Append(calls, Call("send_raw_transaction(commit)", TRUE))
        /\ pc' = "commit_sent"
        /\ UNCHANGED error
     \/ /\ calls' = Append(calls, Call("send_raw_transaction(commit)", FALSE))
        /\ Fail([kind |-> "CommitBroadcastFailed"])
        /\ UNCHANGED commit
  /\ UNCHANGED <<options, loaded, builder_reply, resolved, unsigned_commit_tx, reveal_tx,
                 signed_raw_commit_tx, reveal, panicked, emitted>>

(* Variant: the reveal is sent as soon as the commit is signed. *)
SendRevealBeforeCommit ==
  /\ pc = "signed"
  /\ \/ /\ reveal' = Some(Txid(Unwrap(reveal_tx)))
        /\ calls' = Append(calls, Call("send_raw_transaction(reveal)", TRUE))
        /\ pc' = "reveal_sent"
        /\ UNCHANGED error
     \/ /\ calls' = Append(calls, Call("send_raw_transaction(reveal)", FALSE))
        /\ Fail([kind |-> "RevealBroadcastFailed"])
        /\ UNCHANGED reveal
  /\ UNCHANGED <<options, loaded, builder_reply, resolved, unsigned_commit_tx, reveal_tx,
                 signed_raw_commit_tx, commit, panicked, emitted>>

(* lines 83-85 *)
SendReveal ==
  /\ pc = "commit_sent"
  /\ \/ /\ reveal' = Some(Txid(Unwrap(reveal_tx)))
        /\ calls' = Append(calls, Call("send_raw_transaction(reveal)", TRUE))
        /\ pc' = "reveal_sent"
        /\ UNCHANGED error
     \/ /\ calls' = Append(calls, Call("send_raw_transaction(reveal)", FALSE))
        /\ Fail([kind |-> "RevealBroadcastFailed"])
        /\ UNCHANGED reveal
  /\ UNCHANGED <<options, loaded, builder_reply, resolved, unsigned_commit_tx, reveal_tx,
                 signed_raw_commit_tx, commit, panicked, emitted>>

(* lines 87-96: serde_json::to_writer_pretty(io::stdout(), ..)? of the     *)
(* txids the node returned.                                                *)
EmitOutput ==
  /\ pc = "reveal_sent"
  /\ \E ok \in BOOLEAN :
       IF ok
       THEN /\ emitted' = Some([commit |-> Unwrap(commit),
                                reveal |-> Unwrap(reveal),
                                inscription |-> Unwrap(reveal)])
            /\ pc' = "done"
            /\ UNCHANGED error
       ELSE /\ Fail([kind |-> "OutputError"])
            /\ UNCHANGED emitted
  /\ UNCHANGED <<options, loaded, builder_reply, resolved, unsigned_commit_tx, reveal_tx,
                 signed_raw_commit_tx, commit, reveal, calls, panicked>>

Next ==
  \/ RpcClient
  \/ InscriptionFromFile
  \/ IndexOpen
  \/ IndexUpdate
  \/ GetUnspentOutputs
  \/ GetInscriptions
  \/ GetCommitTxChange
  \/ GetRevealTxDestination
  \/ SelectSatpoint
  \/ BuildCommitAndReveal
  \/ GetDescriptorInfo
  \/ ImportDescriptors
  \/ SignCommit
  \/ SendCommit
  \/ SendReveal
  \/ EmitOutput

Spec == Init /\ [][Next]_vars

----------------------------------------------------------------------------
(* Properties. *)

ErrorKind == IF IsSome(error) THEN Unwrap(error).kind ELSE "none"

Positions(name) == {i \in 1..Len(calls) : calls[i].call = name}

Called(name) == Positions(name) # {}

Succeeded(name) == \E i \in Positions(name) : calls[i].ok

(* The position of a call in the text of run. *)
Rank(name) ==
  CASE name = "bitcoin_rpc_client_for_wallet_command" -> 1
    [] name = "Inscription::from_file"                -> 2
    [] name = "Index::open"                           -> 3
    [] name = "index.update"                          -> 4
    [] name = "get_unspent_outputs"                   -> 5
    [] name = "index.get_inscriptions"                -> 6
    [] name = "get_change_addresses(2)"               -> 7
    [] name = "get_change_addresses(1)"               -> 8
    [] name = "build_transaction"                     -> 9
    [] name = "get_descriptor_info"                   -> 10
    [] name = "import_descriptors"                    -> 11
    [] name = "sign_raw_transaction_with_wallet"      -> 12
    [] name = "send_raw_transaction(commit)"          -> 13
    [] name = "send_raw_transaction(reveal)"          -> 14

(* The wallet, index and addresses are loaded and                          *)
(* create_inscription_transactions has returned or panicked.               *)
Constructed == Succeeded("get_change_addresses(1)") /\ pc \notin {"start", "build"}

(* Lines 109-138 have run and the wallet and index have not been handed to *)
(* the builder.                                                            *)
Selected ==
  /\ Succeeded("get_change_addresses(1)")
  /\ pc # "start"
  /\ ~Called("build_transaction")

IsPipelineCall(c) == Rank(c.call) >= Rank("build_transaction")

(* The calls made from create_inscription_transactions on. *)
Pipeline == SelectSeq(calls, IsPipelineCall)

Broadcasts == {"send_raw_transaction(commit)", "send_raw_transaction(reveal)"}

(* The recovery export was attempted and did not succeed. *)
ExportFailed ==
  \E i \in 1..Len(calls) :
    /\ calls[i].call \in {"get_descriptor_info", "import_descriptors"}
    /\ ~calls[i].ok \/ \E k \in 1..Len(calls[i].response) : ~calls[i].response[k]

(* The recovery export completed before position p of the call log. *)
ExportCompletedBefore(p) ==
  \E i, j \in 1..Len(calls) :
    /\ i < j /\ j < p
    /\ calls[i].call = "get_descriptor_info" /\ calls[i].ok
    /\ calls[j].call = "import_descriptors" /\ calls[j].ok
    /\ \A k \in 1..Len(calls[j].response) : calls[j].response[k]

(* C1: with backup enabled, the recovery export (get_descriptor_info,     *)
(* then import_descriptors with every sub-result successful) has completed *)
(* before the commit is signed or anything is broadcast; when the export   *)
(* fails, run has returned an error and no transaction is broadcast.       *)
C1_ExportBeforeCommit ==
  ~no_backup =>
    /\ \A p \in 1..Len(calls) :
         calls[p].call \in Broadcasts \cup {"sign_raw_transaction_with_wallet"}
           => ExportCompletedBefore(p)
    /\ ExportFailed =>
         /\ pc = "done" /\ IsSome(error) /\ emitted = None
         /\ \A p \in 1..Len(calls) : calls[p].call \notin Broadcasts

C1_Witness ==
  /\ ~no_backup
  /\ Succeeded("send_raw_transaction(commit)")
  /\ \E i \in Positions("import_descriptors") : Len(calls[i].response) = MaxImportResults

(* C2: the calls of a run follow the order fund commit, (reveal derived    *)
(* and signed), export recovery, sign commit, broadcast commit, broadcast  *)
(* reveal; a failed step ends the run; the reveal is broadcast only after  *)
(* the commit broadcast succeeded; the record is emitted only after both   *)
(* broadcasts succeeded.                                                   *)
C2_StrictOrder ==
  /\ \A i \in 1..Len(calls) - 1 :
       /\ Rank(calls[i].call) < Rank(calls[i + 1].call)
       /\ calls[i].ok
  /\ \A i \in 1..Len(calls) :
       Rank(calls[i].call) > Rank("build_transaction") =>
         /\ Succeeded("build_transaction")
         /\ IsSome(unsigned_commit_tx)
         /\ IsSome(reveal_tx)
         /\ Unwrap(reveal_tx).input[1].witness[1].item = "signature"
  /\ Called("send_raw_transaction(commit)") => Succeeded("sign_raw_transaction_with_wallet")
  /\ Called("send_raw_transaction(reveal)") => Succeeded("send_raw_transaction(commit)")
  /\ IsSome(emitted) =>
       /\ Succeeded("send_raw_transaction(commit)")
       /\ Succeeded("send_raw_transaction(reveal)")
       /\ Unwrap(emitted) = [commit |-> Txid(Unwrap(signed_raw_commit_tx)),
                             reveal |-> Txid(Unwrap(reveal_tx)),
                             inscription |-> Txid(Unwrap(reveal_tx))]
  /\ ErrorKind = "RevealBroadcastFailed" =>
       /\ Succeeded("send_raw_transaction(commit)")
       /\ emitted = None
  /\ (pc = "done" /\ IsSome(error)) => emitted = None

C2_Witness ==
  /\ IsSome(emitted)
  /\ ~no_backup
  /\ Len(calls) = Rank("send_raw_transaction(reveal)")

(* The cardinal utxos: wallet outpoints that are the outpoint of no index key. *)
Cardinal == {o \in utxos : \A k \in inscriptions : k.outpoint # o}

(* C3: with no explicit satpoint, the resolved satpoint is offset 0 of the *)
(* smallest cardinal outpoint; with no cardinal outpoint the construction  *)
(* fails with NoCardinalUtxos and nothing is built.                        *)
C3_FirstCardinal ==
  (Selected /\ satpoint = None) =>
    IF Cardinal # {}
    THEN /\ IsSome(resolved)
         /\ Unwrap(resolved).offset = 0
         /\ Unwrap(resolved).outpoint \in Cardinal
         /\ \A o \in Cardinal : ~OutPointLess(o, Unwrap(resolved).outpoint)
    ELSE /\ ErrorKind = "NoCardinalUtxos"
         /\ pc = "done"
         /\ resolved = None
         /\ Pipeline = <<>>
         /\ unsigned_commit_tx = None /\ reveal_tx = None

C3_Witness ==
  /\ Selected /\ satpoint = None
  /\ IsSome(resolved)
  /\ Cardinality(Cardinal) >= 2
  /\ pc = "build"

(* C4 (as stated): whenever the resolved satpoint is a key of the index    *)
(* the construction fails with SatAlreadyInscribed naming it, whatever the *)
(* other entries; OutpointAlreadyInscribed only when an entry shares the   *)
(* outpoint and no entry equals the resolved satpoint.                     *)
C4_ExactMatchWins ==
  (Selected /\ IsSome(resolved)) =>
    /\ Unwrap(resolved) \in inscriptions =>
         error = Some([kind |-> "SatAlreadyInscribed", satpoint |-> Unwrap(resolved)])
    /\ ErrorKind = "OutpointAlreadyInscribed" =>
         /\ \E k \in inscriptions : k.outpoint = Unwrap(resolved).outpoint
         /\ Unwrap(resolved) \notin inscriptions

(* The index keys on the resolved outpoint. *)
SameOutpoint == {k \in inscriptions : k.outpoint = Unwrap(resolved).outpoint}

(* C4 (amended): the error is decided by the index key of the resolved     *)
(* outpoint with the smallest offset: SatAlreadyInscribed naming the       *)
(* satpoint when that key is the resolved satpoint, otherwise              *)
(* OutpointAlreadyInscribed naming that key, also when the resolved        *)
(* satpoint is itself a key at a larger offset.                            *)
C4_FirstEntryDecides ==
  (Selected /\ IsSome(resolved) /\ SameOutpoint # {}) =>
    LET first == CHOOSE k \in SameOutpoint : \A m \in SameOutpoint : k.offset <= m.offset
    IN  /\ pc = "done"
        /\ IF first = Unwrap(resolved)
           THEN error = Some([kind |-> "SatAlreadyInscribed", satpoint |-> Unwrap(resolved)])
           ELSE error = Some([kind |-> "OutpointAlreadyInscribed",
                              outpoint |-> Unwrap(resolved).outpoint,
                              inscribed_satpoint |-> first])

C4_Witness ==
  /\ Selected /\ IsSome(resolved)
  /\ Unwrap(resolved) \in inscriptions
  /\ Cardinality(SameOutpoint) >= 2
  /\ ErrorKind = "SatAlreadyInscribed"

(* C5: when an index key has the outpoint of the resolved satpoint, the    *)
(* construction fails before the builder is called and the run makes no    *)
(* export, signing or broadcast call.                                      *)
C5_CollisionStopsRun ==
  (Selected /\ IsSome(resolved) /\ SameOutpoint # {}) =>
    /\ pc = "done"
    /\ IsSome(error)
    /\ Pipeline = <<>>
    /\ unsigned_commit_tx = None /\ reveal_tx = None
    /\ emitted = None

C5_Witness ==
  /\ pc = "done" /\ IsSome(resolved)
  /\ SameOutpoint # {}
  /\ Unwrap(resolved) \notin inscriptions
  /\ Unwrap(resolved).outpoint \in utxos
  /\ Pipeline = <<>>

(* The commit output the reveal transaction spends. *)
SpentCommitOutput ==
  Unwrap(unsigned_commit_tx).output[Unwrap(reveal_tx).input[1].previous_output.vout + 1]

(* C6: the output of a returned reveal transaction is the value of the     *)
(* commit output it spends less the fee of its own vsize, measured with    *)
(* its real witness [signature, reveal_script, control_block].             *)
C6_RevealPaysFee ==
  IsSome(reveal_tx) =>
    LET tx == Unwrap(reveal_tx)
    IN  /\ [i \in 1..Len(tx.input[1].witness) |-> tx.input[1].witness[i].item]
             = <<"signature", "reveal_script", "control_block">>
        /\ tx.input[1].witness[2].len = RevealScriptLen(envelope_len)
        /\ tx.output[1].value = SpentCommitOutput.value - Fee(fee_rate, Vsize(tx))

C6_Witness ==
  /\ IsSome(reveal_tx)
  /\ fee_rate.den # 1
  /\ (fee_rate.num * Vsize(Unwrap(reveal_tx))) % fee_rate.den # 0
  /\ Weight(Unwrap(reveal_tx)) % 4 = 0

(* The first output of the builder's transaction paying the commit address.*)
FundedOutput == Unwrap(FindCommitOutput(Unwrap(builder_reply), commit_tx_address))[2]

(* The fee of a reveal transaction of this run: one input with the         *)
(* three-element witness, one output to the destination.                   *)
ExpectedRevealFee ==
  Fee(fee_rate,
      Vsize([version |-> 1, lock_time |-> 0,
             input |-> <<[script_sig_len |-> 0,
                          witness |-> <<[len |-> SCHNORR_SIGNATURE_SIZE],
                                        [len |-> RevealScriptLen(envelope_len)],
                                        [len |-> CONTROL_BLOCK_SIZE]>>]>>,
             output |-> <<[script_pubkey |-> destination]>>]))

(* C7: once the commit output is found, a value below the reveal fee is    *)
(* InsufficientCommitValue (also when the dust test would fail), a value   *)
(* that leaves less than the dust threshold is RevealWouldBeDust, neither  *)
(* returns transactions, and every returned reveal transaction pays at     *)
(* least the dust threshold.                                               *)
C7_FeeErrors ==
  /\ (Constructed /\ Succeeded("build_transaction") /\ ~panicked) =>
       IF FundedOutput.value < ExpectedRevealFee
       THEN /\ ErrorKind = "InsufficientCommitValue"
            /\ pc = "done" /\ unsigned_commit_tx = None /\ reveal_tx = None
       ELSE IF FundedOutput.value - ExpectedRevealFee < DustValue(destination)
       THEN /\ ErrorKind = "RevealWouldBeDust"
            /\ pc = "done" /\ unsigned_commit_tx = None /\ reveal_tx = None
       ELSE IsSome(reveal_tx)
  /\ IsSome(reveal_tx) =>
       Unwrap(reveal_tx).output[1].value
         >= DustValue(Unwrap(reveal_tx).output[1].script_pubkey)

C7_Witness ==
  /\ ErrorKind = "RevealWouldBeDust"
  /\ FundedOutput.value >= ExpectedRevealFee
  /\ FundedOutput.value >= DustValue(destination)

(* The outputs of the builder's transaction paying the commit address. *)
MatchingOutputs ==
  {i \in 1..Len(Unwrap(builder_reply)) :
     Unwrap(builder_reply)[i].script_pubkey = commit_tx_address}

(* C8: the construction requires exactly one output of the builder's      *)
(* transaction to pay the commit address: with none it panics, with        *)
(* several it returns no transactions either, so a returned commit         *)
(* transaction has exactly one such output, and the reveal input spends    *)
(* it.                                                                     *)
C8_ExactlyOneCommitOutput ==
  (Constructed /\ Succeeded("build_transaction")) =>
    /\ Cardinality(MatchingOutputs) = 0 => panicked
    /\ Cardinality(MatchingOutputs) > 1 =>
         unsigned_commit_tx = None /\ reveal_tx = None
    /\ IsSome(unsigned_commit_tx) =>
         /\ Cardinality({i \in 1..Len(Unwrap(unsigned_commit_tx).output) :
              Unwrap(unsigned_commit_tx).output[i].script_pubkey = commit_tx_address}) = 1
         /\ \E i \in MatchingOutputs :
              Unwrap(reveal_tx).input[1].previous_output
                = [txid |-> Txid(Unwrap(unsigned_commit_tx)), vout |-> i - 1]

(* C9: a returned reveal transaction has one input, with sequence          *)
(* 0xFFFFFFFD, and one output, and the returned commit and reveal          *)
(* transactions each have an input with a sequence below 0xFFFFFFFE.       *)
C9_OptInRbf ==
  IsSome(reveal_tx) =>
    /\ Len(Unwrap(reveal_tx).input) = 1
    /\ Unwrap(reveal_tx).input[1].sequence = U32(65535, 65533)
    /\ Len(Unwrap(reveal_tx).output) = 1
    /\ IsSome(unsigned_commit_tx)
    /\ IsExplicitlyRbf(Unwrap(unsigned_commit_tx))
    /\ IsExplicitlyRbf(Unwrap(reveal_tx))

C9_Witness ==
  /\ pc = "created"
  /\ IsSome(reveal_tx)
  /\ Len(Unwrap(unsigned_commit_tx).output) = MaxOutputs

(* C10: an auto-selected satpoint never fails the collision check:         *)
(* SatAlreadyInscribed and OutpointAlreadyInscribed occur only with an     *)
(* explicit satpoint.                                                      *)
C10_AutoSelectionNeverCollides ==
  /\ (Selected /\ satpoint = None /\ IsSome(resolved)) =>
       /\ ErrorKind \notin {"SatAlreadyInscribed", "OutpointAlreadyInscribed"}
       /\ \A k \in inscriptions : k.outpoint # Unwrap(resolved).outpoint
       /\ pc = "build"
  /\ ErrorKind \in {"SatAlreadyInscribed", "OutpointAlreadyInscribed"} => IsSome(satpoint)

C10_Witness ==
  /\ Selected /\ satpoint = None /\ IsSome(resolved)
  /\ \E k \in inscriptions : k.outpoint \in utxos
  /\ pc = "build"

====
